---- MODULE Spec2Model ----
(***************************************************************************)
(* The completion request layer of the discovery app:                      *)
(*   src/modules/snowflake_utils.py  mark_app_loaded, get_connection,      *)
(*                                   execute_query                         *)
(*   src/modules/llm_functions.py    cortex_request, extract_and_parse_json*)
(*   src/discovery_app_streamlit.py  the older single-file cortex_request  *)
(*                                                                         *)
(* A text is a sequence of one-character strings.  A DataFrame is the      *)
(* sequence of its RESPONSE cells.  A parsed JSON value is written as its  *)
(* compact serialisation (white space outside strings removed).            *)
(***************************************************************************)
EXTENDS Integers, Sequences, FiniteSets, TLC

\* ------------------------------------------------------------------ text

DQ == "\""
BS == "\\"
SQ == "'"
NL == "\n"
SP == " "

\* str.find(c): the 0-based index of the first c in s, or -1
RECURSIVE FindFrom(_, _, _)
FindFrom(s, c, i) ==
  IF i > Len(s) THEN -1
  ELSE IF s[i] = c THEN i - 1
  ELSE FindFrom(s, c, i + 1)

Find(s, c) == FindFrom(s, c, 1)

\* str.rfind(c): the 0-based index of the last c in s, or -1
RECURSIVE RFindFrom(_, _, _)
RFindFrom(s, c, i) ==
  IF i < 1 THEN -1
  ELSE IF s[i] = c THEN i - 1
  ELSE RFindFrom(s, c, i - 1)

RFind(s, c) == RFindFrom(s, c, Len(s))

\* s[a:b] for 0 <= a, 0 <= b (empty when b <= a)
Slice(s, a, b) ==
  LET hi == IF b > Len(s) THEN Len(s) ELSE b
  IN  IF hi <= a THEN <<>> ELSE SubSeq(s, a + 1, hi)

IsWs(c) == c \in {SP, NL}

\* str.strip(): leading and trailing white space removed
RECURSIVE LStrip(_)
LStrip(s) == IF Len(s) > 0 /\ IsWs(s[1]) THEN LStrip(Tail(s)) ELSE s

RECURSIVE RStrip(_)
RStrip(s) ==
  IF Len(s) > 0 /\ IsWs(s[Len(s)]) THEN RStrip(SubSeq(s, 1, Len(s) - 1)) ELSE s

Strip(s) == RStrip(LStrip(s))

\* str.split('\n')
RECURSIVE SplitLines(_)
SplitLines(s) ==
  LET n == Find(s, NL)
  IN  IF n = -1 THEN <<s>>
      ELSE <<Slice(s, 0, n)>> \o SplitLines(Slice(s, n + 1, Len(s)))

\* str.replace(c, r): every c replaced by the text r
RECURSIVE Replace(_, _, _)
Replace(s, c, r) ==
  IF s = <<>> THEN <<>>
  ELSE (IF s[1] = c THEN r ELSE <<s[1]>>) \o Replace(Tail(s), c, r)

\* ------------------------------------------------------------------ json

\* Each Scan operator is given the index of the first character of a
\* construct and yields the index after its last character, or 0 when the
\* text is no such construct (json.JSONDecodeError).

RECURSIVE SkipWs(_, _)
SkipWs(s, i) == IF i <= Len(s) /\ IsWs(s[i]) THEN SkipWs(s, i + 1) ELSE i

\* i: the index after the opening quote
RECURSIVE ScanString(_, _)
ScanString(s, i) ==
  IF i > Len(s) THEN 0
  ELSE IF s[i] = DQ THEN i + 1
  ELSE IF s[i] = BS
       THEN IF i + 1 <= Len(s) /\ s[i + 1] \in {DQ, BS}
            THEN ScanString(s, i + 2) ELSE 0
  ELSE IF s[i] = NL THEN 0
  ELSE ScanString(s, i + 1)

RECURSIVE ScanNumber(_, _)
ScanNumber(s, i) ==
  IF i <= Len(s) /\ s[i] = "1" THEN ScanNumber(s, i + 1) ELSE i

RECURSIVE ScanValue(_, _), ScanElements(_, _), ScanMembers(_, _)
ScanValue(s, i) ==
  IF i > Len(s) THEN 0
  ELSE IF s[i] = "["
       THEN LET j == SkipWs(s, i + 1)
            IN  IF j <= Len(s) /\ s[j] = "]" THEN j + 1 ELSE ScanElements(s, j)
  ELSE IF s[i] = "{"
       THEN LET j == SkipWs(s, i + 1)
            IN  IF j <= Len(s) /\ s[j] = "}" THEN j + 1 ELSE ScanMembers(s, j)
  ELSE IF s[i] = DQ THEN ScanString(s, i + 1)
  ELSE IF s[i] = "1" THEN ScanNumber(s, i + 1)
  ELSE 0

ScanElements(s, i) ==
  LET e == ScanValue(s, i)
      j == SkipWs(s, e)
  IN  IF e = 0 \/ j > Len(s) THEN 0
      ELSE IF s[j] = "]" THEN j + 1
      ELSE IF s[j] = "," THEN ScanElements(s, SkipWs(s, j + 1))
      ELSE 0

ScanMembers(s, i) ==
  LET k == IF i <= Len(s) /\ s[i] = DQ THEN ScanString(s, i + 1) ELSE 0
      c == SkipWs(s, k)
      e == IF k = 0 \/ c > Len(s) \/ s[c] # ":" THEN 0
           ELSE ScanValue(s, SkipWs(s, c + 1))
      j == SkipWs(s, e)
  IN  IF e = 0 \/ j > Len(s) THEN 0
      ELSE IF s[j] = "}" THEN j + 1
      ELSE IF s[j] = "," THEN ScanMembers(s, SkipWs(s, j + 1))
      ELSE 0

\* the text is one JSON value with optional surrounding white space
ValidJson(s) ==
  LET e == ScanValue(s, SkipWs(s, 1))
  IN  e # 0 /\ SkipWs(s, e) = Len(s) + 1

\* the compact serialisation: white space outside strings dropped
RECURSIVE Compact(_, _, _)
Compact(s, i, inStr) ==
  IF i > Len(s) THEN <<>>
  ELSE IF inStr
       THEN IF s[i] = BS /\ i + 1 <= Len(s)
            THEN <<s[i], s[i + 1]>> \o Compact(s, i + 2, TRUE)
            ELSE <<s[i]>> \o Compact(s, i + 1, s[i] # DQ)
  ELSE IF IsWs(s[i]) THEN Compact(s, i + 1, FALSE)
  ELSE <<s[i]>> \o Compact(s, i + 1, s[i] = DQ)

\* json.loads(s): the value, or the JSONDecodeError
Parsed(v) == [ok |-> TRUE, val |-> v]
ParseError == [ok |-> FALSE, val |-> <<>>]

JsonLoads(s) == IF ValidJson(s) THEN Parsed(Compact(s, 1, FALSE)) ELSE ParseError

\* Python truth value of a parsed array or object: empty ones are falsy
Truthy(v) == v \notin {<<"[", "]">>, <<"{", "}">>}

\* --------------------------------------------------------------- parsers

\* cortex_request, first pass (modules/llm_functions.py): the span from the
\* first '{' to the last '}', or with no '{' from the first '[' to the last ']'
FirstPassParse(t) ==
  LET obj_start  == Find(t, "{")
      json_start == IF obj_start = -1 THEN Find(t, "[") ELSE obj_start
      json_end   == IF obj_start = -1 THEN RFind(t, "]") + 1 ELSE RFind(t, "}") + 1
  IN  IF json_start # -1 /\ json_end # 0
      THEN JsonLoads(Slice(t, json_start, json_end))
      ELSE ParseError

\* the 0-based index at which the nesting count opened at s[i+1] returns to
\* zero, walking forward from 0-based index i; -1 when it never does
RECURSIVE MatchClose(_, _, _, _, _)
MatchClose(s, i, count, open, close) ==
  IF i >= Len(s) THEN -1
  ELSE IF s[i + 1] = open THEN MatchClose(s, i + 1, count + 1, open, close)
  ELSE IF s[i + 1] = close
       THEN IF count - 1 = 0 THEN i
            ELSE MatchClose(s, i + 1, count - 1, open, close)
  ELSE MatchClose(s, i + 1, count, open, close)

\* Try 1 / Try 2 of extract_and_parse_json: the counted-bracket scan
BracketScan(t, open, close) ==
  LET start == Find(t, open)
      stop  == IF start = -1 THEN -1 ELSE MatchClose(t, start, 0, open, close)
  IN  IF stop = -1 THEN ParseError ELSE JsonLoads(Slice(t, start, stop + 1))

\* Try 3 of extract_and_parse_json: the first stripped line that starts with
\* a bracket and loads
RECURSIVE LineScan(_)
LineScan(lines) ==
  IF lines = <<>> THEN ParseError
  ELSE LET line == Strip(Head(lines))
           r    == IF line # <<>> /\ line[1] \in {"[", "{"}
                   THEN JsonLoads(line) ELSE ParseError
       IN  IF r.ok THEN r ELSE LineScan(Tail(lines))

\* the object scan tried before the array scan
extract_and_parse_json_object_first(t) ==
  LET try1 == BracketScan(t, "{", "}")
      try2 == BracketScan(t, "[", "]")
  IN  IF try1.ok THEN try1
      ELSE IF try2.ok THEN try2
      ELSE LineScan(SplitLines(t))

\* extract_and_parse_json(text): ParseError stands for its None
extract_and_parse_json(t) ==
  LET try1 == BracketScan(t, "[", "]")
      try2 == BracketScan(t, "{", "}")
  IN  IF try1.ok THEN try1
      ELSE IF try2.ok THEN try2
      ELSE LineScan(SplitLines(t))

\* cortex_request of discovery_app_streamlit.py, both passes: the span from
\* the first '{' to the last '}' only
LegacyParse(t) ==
  LET json_start == Find(t, "{")
      json_end   == RFind(t, "}") + 1
  IN  IF json_start # -1 /\ json_end # 0
      THEN JsonLoads(Slice(t, json_start, json_end))
      ELSE ParseError

\* --------------------------------------------------------------- command

\* safe_prompt = prompt.replace("'", "''")
EscapePrompt(prompt) == Replace(prompt, SQ, <<SQ, SQ>>)

CmdHead == <<"SELECT", SP, "SNOWFLAKE.CORTEX.COMPLETE", "(">>
CmdTail == <<")", SP, "as", SP, "response">>

\* f"SELECT SNOWFLAKE.CORTEX.COMPLETE('{selected_model}', '{safe_prompt}') as response"
BuildCommand(model, safe_prompt) ==
  CmdHead \o <<SQ>> \o model \o <<SQ, ",", SP, SQ>> \o safe_prompt \o <<SQ>> \o CmdTail

\* the index in the command of the quote that opens the prompt literal
PromptOpen(model) == Len(CmdHead) + 1 + Len(model) + 4

RepairHead == <<"Fix this JSON and return ONLY the corrected JSON with no other text:", NL, NL>>
RepairTail == <<NL, NL, "Return ONLY valid JSON:">>

\* repair_prompt_text
RepairPrompt(llm_response_str) == RepairHead \o llm_response_str \o RepairTail

LegacyRepairHead == <<"The following text is not valid JSON. ... Here is the invalid text:", NL, NL>>

\* repair_prompt_text of discovery_app_streamlit.py
LegacyRepairPrompt(llm_response_str) == LegacyRepairHead \o llm_response_str

\* ----------------------------------------------------------- error messages

\* An exception message is a sequence of words.
LowerWord(w) ==
  CASE w = "Concurrent" -> "concurrent"
    [] w = "Queries"    -> "queries"
    [] w = "LIMIT"      -> "limit"
    [] w = "Exceeded"   -> "exceeded"
    [] w = "Max"        -> "max"
    [] OTHER            -> w

\* the message compared as it is, without lower-casing
Lower_identity(msg) == msg

\* str(e).lower()
Lower(msg) == [i \in DOMAIN msg |-> LowerWord(msg[i])]

\* `term in word` for the words in use: equal, or a longer word holding it
WordHas(word, term) ==
  word = term \/ <<word, term>> \in {<<"unlimited", "limit">>, <<"limits", "limit">>}

\* `phrase in msg`, the phrase given as its words
Contains(msg, phrase) ==
  \E i \in 0..(Len(msg) - Len(phrase)) :
    \A j \in 1..Len(phrase) : WordHas(msg[i + j], phrase[j])

\* execute_query line 80
IsTransient(e) ==
  LET error_msg == Lower(e)
  IN  \/ Contains(error_msg, <<"concurrent", "queries">>)
      \/ Contains(error_msg, <<"exceeded">>)
      \/ Contains(error_msg, <<"limit">>)

\* cortex_request line 26 (no lower-casing)
IsTokenLimit(e) == Contains(e, <<"max", "tokens">>) /\ Contains(e, <<"exceeded">>)

\* ------------------------------------------------------------------ bounds

\* requests made in one run
MaxRequests == 2
\* longest prompt of the escaping specification
MaxPromptLen == 3

\* execute_query(query, params=None, max_retries=3)
max_retries == 3

\* ------------------------------------------------------------------ inputs

Models == {<<"m">>, <<"n">>}

TObj      == <<"{", DQ, "a", DQ, ":", "1", "}">>
TArr      == <<"[", "1", "]">>
TArrObj   == <<"[", "{", DQ, "a", DQ, ":", "[", "1", "]", "}", ",", "{", "}", "]">>
TArrOne   == <<"[", "{", DQ, "a", DQ, ":", "1", "}", "]">>
TEmptyArr == <<"[", "]">>
TEmptyObj == <<"{", "}">>
TProse    == <<"a", SQ, "a">>
TTrunc    == <<"{", DQ, "a", DQ, ":", "1">>
TWrapped  == <<"a", SP, "{", DQ, "a", DQ, ":", "1", "}", SP, "a">>
TFenced   == <<NL, "[", "1", "]", NL>>
TBadObj   == <<"{", "a", "}">>

\* the texts a completion may answer with
Responses ==
  {TObj, TArr, TArrObj, TArrOne, TEmptyArr, TEmptyObj, TProse, TTrunc, TWrapped,
   TFenced, TBadObj, <<>>}

Prompts == {<<"a">>, <<"a", SQ, BS>>}

Cell(t)  == [null |-> FALSE, text |-> t]
NullCell == [null |-> TRUE, text |-> <<>>]

\* query results: no rows, one row with a NULL scalar, one row with a text
DataFrames == {<<>>, <<NullCell>>} \cup {<<Cell(t)>> : t \in Responses}

ErrMsgs ==
  { <<"Too", "many", "Concurrent", "Queries">>,
    <<"Rate", "LIMIT", "reached">>,
    <<"max", "tokens", "exceeded">>,
    <<"SQL", "compilation", "error">> }

\* what a call hands back to its caller
Returned(df) == [raised |-> FALSE, df |-> df, exc |-> <<>>]
Raised(e)    == [raised |-> TRUE, df |-> <<>>, exc |-> e]

\* cortex_request's return value
NoneVal   == [kind |-> "None", val |-> <<>>]
TextVal(t) == [kind |-> "text", val |-> t]
JsonVal(v) == [kind |-> "json", val |-> v]

\* a Streamlit call: st.error / st.warning / st.text_area
Msg(kind)        == [kind |-> kind, text |-> <<>>]
TextArea(t)      == [kind |-> "text_area", text |-> t]

\* ------------------------------------------------------------------- state

VARIABLES
  APP_FULLY_LOADED,    \* snowflake_utils._APP_FULLY_LOADED
  GLOBAL_CONNECTION,   \* snowflake_utils._GLOBAL_CONNECTION: None, or a handle
  token_error_flag,    \* st.session_state.token_error_flag
  created,             \* handles created so far; handle ids are 1..created
  discarded,           \* the handles dropped by a reset
  impl,                \* "modules": app.py and pages; "legacy": discovery_app_streamlit.py
  requests,            \* cortex_request calls made so far
  pc,                  \* the position of the one caller
  prompt, json_output, suppress_warnings, selected_model,   \* cortex_request's inputs
  stage,               \* 1: the first completion; 2: the repair completion
  sql_query,           \* the command last built
  attempt,             \* execute_query's loop index
  conn_info,           \* execute_query's local handle
  exc,                 \* the exception last raised by the backend
  attempts,            \* this execute_query's backend calls: handle used, outcome
  waits,               \* this execute_query's time.sleep durations
  resets,              \* this execute_query's resets of _GLOBAL_CONNECTION
  response,            \* what the query call handed back to cortex_request
  responses,           \* the results handed back during this request
  llm_response_str, repaired_llm_str,
  completions,         \* completion queries issued by this request
  parses,              \* parser runs of this request
  result,              \* what the parser of the repair pass handed back (line 114)
  backend_calls,       \* backend calls of this request
  invalidations,       \* resets of this request
  ret,                 \* the return value
  exit,                \* the return statement taken
  ui,                  \* the Streamlit calls of this request
  th                   \* the callers that run execute_query side by side

globals == <<APP_FULLY_LOADED, GLOBAL_CONNECTION, token_error_flag, created, discarded, impl, requests>>
inputs  == <<prompt, json_output, suppress_warnings, selected_model>>
eqvars  == <<attempt, conn_info, exc, attempts, waits, resets>>
crvars  == <<stage, sql_query, response, responses, llm_response_str, repaired_llm_str,
             completions, parses, result, backend_calls, invalidations, ret, exit, ui>>
vars    == <<globals, pc, inputs, eqvars, crvars, th>>

None == 0

\* the callers of the two-caller specification
Callers == {"A", "B"}

\* a caller that is not inside execute_query
IdleCaller == [pc |-> "out", attempt |-> 0, conn_info |-> None, exc |-> <<>>]

Init ==
  /\ APP_FULLY_LOADED = FALSE
  /\ GLOBAL_CONNECTION = None
  /\ token_error_flag = FALSE
  /\ created = 0
  /\ discarded = {}
  /\ impl \in {"modules", "legacy"}
  /\ requests = 0
  /\ pc = "idle"
  /\ prompt = <<>>
  /\ json_output = TRUE
  /\ suppress_warnings = FALSE
  /\ selected_model = <<"m">>
  /\ stage = 1
  /\ sql_query = <<>>
  /\ attempt = 0
  /\ conn_info = None
  /\ exc = <<>>
  /\ attempts = <<>>
  /\ waits = <<>>
  /\ resets = 0
  /\ response = Returned(<<>>)
  /\ responses = <<>>
  /\ llm_response_str = <<>>
  /\ repaired_llm_str = <<>>
  /\ completions = 0
  /\ parses = 0
  /\ result = ParseError
  /\ backend_calls = 0
  /\ invalidations = 0
  /\ ret = NoneVal
  /\ exit = "none"
  /\ ui = <<>>
  /\ th = [c \in Callers |-> IdleCaller]

\* ------------------------------------------------------- snowflake_utils

\* mark_app_loaded()
MarkAppLoaded ==
  /\ impl = "modules"
  /\ pc = "idle"
  /\ APP_FULLY_LOADED' = TRUE
  /\ UNCHANGED <<GLOBAL_CONNECTION, token_error_flag, created, discarded, impl, requests,
                 pc, inputs, eqvars, crvars>>
  /\ UNCHANGED th

\* get_connection() handing the handle it made last out again
get_connection_stale ==
  IF GLOBAL_CONNECTION = None
  THEN (IF created = 0 THEN 1 ELSE created)
  ELSE GLOBAL_CONNECTION

\* get_connection() without the `is None` test: a new handle on every call
get_connection_always_new == created + 1

\* get_connection(): the handle it returns, which it also leaves in
\* _GLOBAL_CONNECTION; a handle beyond `created` is a newly made one
get_connection ==
  IF GLOBAL_CONNECTION = None THEN created + 1 ELSE GLOBAL_CONNECTION

\* the retry test off by one: attempt < max_retries
RetryAllowed_off_by_one(a) == a < max_retries

\* execute_query line 81
RetryAllowed(a) == a < max_retries - 1

\* the same wait before every retry
WaitTime_constant(a) == 1

\* execute_query line 83
WaitTime(a) == 1 + a

\* execute_query without its startup gate: the loop is always entered
EqGate_no_gate ==
  /\ pc = "eq_gate"
  /\ attempt' = 0
  /\ pc' = "eq_conn"
  /\ UNCHANGED <<globals, inputs, conn_info, exc, attempts, waits, resets, crvars, th>>

\* execute_query lines 52-56: the startup gate, then the loop is entered
EqGate ==
  /\ pc = "eq_gate"
  /\ IF ~APP_FULLY_LOADED
     THEN /\ response' = Returned(<<>>)
          /\ pc' = "cr_check"
          /\ UNCHANGED attempt
     ELSE /\ attempt' = 0
          /\ pc' = "eq_conn"
          /\ UNCHANGED response
  /\ UNCHANGED <<globals, inputs, conn_info, exc, attempts, waits, resets,
                 stage, sql_query, responses, llm_response_str, repaired_llm_str, result,
                 completions, parses, backend_calls, invalidations, ret, exit, ui>>
  /\ UNCHANGED th

\* execute_query line 58: conn_info = get_connection()
EqConnect ==
  /\ pc = "eq_conn"
  /\ conn_info' = get_connection
  /\ GLOBAL_CONNECTION' = get_connection
  /\ created' = IF get_connection > created THEN get_connection ELSE created
  /\ pc' = "eq_call"
  /\ UNCHANGED <<APP_FULLY_LOADED, token_error_flag, discarded, impl, requests, inputs,
                 attempt, exc, attempts, waits, resets, crvars>>
  /\ UNCHANGED th

\* a query that returns and is retried all the same
EqCallReturns_then_retry ==
  /\ pc = "eq_call"
  /\ RetryAllowed(attempt)
  /\ attempts' = Append(attempts, [handle |-> conn_info, outcome |-> "ok"])
  /\ backend_calls' = backend_calls + 1
  /\ pc' = "eq_sleep"
  /\ UNCHANGED <<globals, inputs, attempt, conn_info, exc, waits, resets,
                 stage, sql_query, response, responses, llm_response_str,
                 repaired_llm_str, result, completions, parses, invalidations,
                 ret, exit, ui, th>>

\* execute_query lines 60-75: the query returns a result
EqCallReturns ==
  /\ pc = "eq_call"
  /\ \E df \in DataFrames :
       /\ response' = Returned(df)
       /\ attempts' = Append(attempts, [handle |-> conn_info, outcome |-> "ok"])
  /\ backend_calls' = backend_calls + 1
  /\ pc' = "cr_check"
  /\ UNCHANGED <<globals, inputs, attempt, conn_info, exc, waits, resets,
                 stage, sql_query, responses, llm_response_str, repaired_llm_str, result,
                 completions, parses, invalidations, ret, exit, ui>>
  /\ UNCHANGED th

\* execute_query lines 60-77: the query raises
EqCallRaises ==
  /\ pc = "eq_call"
  /\ \E e \in ErrMsgs :
       /\ exc' = e
       /\ attempts' = Append(attempts,
            [handle |-> conn_info,
             outcome |-> IF IsTransient(e) THEN "transient" ELSE "other"])
  /\ backend_calls' = backend_calls + 1
  /\ pc' = "eq_except"
  /\ UNCHANGED <<globals, inputs, attempt, conn_info, waits, resets,
                 stage, sql_query, response, responses, llm_response_str,
                 repaired_llm_str, result, completions, parses, invalidations, ret, exit, ui>>
  /\ UNCHANGED th

\* what execute_query hands back for an exception it does not retry
\* (lines 91-96: an st.error and an empty DataFrame for either kind)
EqFailure(e) == Returned(<<>>)

\* execute_query lines 77-96: the except clause
EqExcept ==
  /\ pc = "eq_except"
  /\ IF IsTransient(exc) /\ RetryAllowed(attempt)
     THEN /\ pc' = "eq_sleep"
          /\ UNCHANGED <<response, ui>>
     ELSE /\ response' = EqFailure(exc)
          /\ ui' = Append(ui, Msg(IF IsTransient(exc) THEN "database_busy"
                                                     ELSE "query_failed"))
          /\ pc' = "cr_check"
  /\ UNCHANGED <<globals, inputs, eqvars, stage, sql_query, responses,
                 llm_response_str, repaired_llm_str, result, completions, parses,
                 backend_calls, invalidations, ret, exit>>
  /\ UNCHANGED th

\* execute_query lines 83-85: time.sleep(wait_time)
EqSleep ==
  /\ pc = "eq_sleep"
  /\ waits' = Append(waits, WaitTime(attempt))
  /\ pc' = "eq_reset"
  /\ UNCHANGED <<globals, inputs, attempt, conn_info, exc, attempts, resets, crvars>>
  /\ UNCHANGED th

\* execute_query lines 88-90 and 56: the reset, then the next iteration, or
\* line 97 when the loop is exhausted
EqReset ==
  /\ pc = "eq_reset"
  /\ GLOBAL_CONNECTION' = None
  /\ discarded' = discarded \cup ({GLOBAL_CONNECTION} \ {None})
  /\ resets' = resets + 1
  /\ invalidations' = invalidations + 1
  /\ attempt' = attempt + 1
  /\ IF attempt + 1 < max_retries
     THEN pc' = "eq_conn" /\ UNCHANGED response
     ELSE pc' = "cr_check" /\ response' = Returned(<<>>)
  /\ UNCHANGED <<APP_FULLY_LOADED, token_error_flag, created, impl, requests, inputs,
                 conn_info, exc, attempts, waits,
                 stage, sql_query, responses, llm_response_str, repaired_llm_str, result,
                 completions, parses, backend_calls, ret, exit, ui>>
  /\ UNCHANGED th

\* ------------------------------------------- discovery_app_streamlit.py

\* cursor.execute(sql_query); cursor.fetchone() returns a row or None
LegacyCallReturns ==
  /\ pc = "lg_call"
  /\ \E df \in DataFrames : response' = Returned(df)
  /\ backend_calls' = backend_calls + 1
  /\ pc' = "cr_check"
  /\ UNCHANGED <<globals, inputs, eqvars, stage, sql_query, responses,
                 llm_response_str, repaired_llm_str, result, completions, parses,
                 invalidations, ret, exit, ui>>
  /\ UNCHANGED th

\* cursor.execute(sql_query) raises
LegacyCallRaises ==
  /\ pc = "lg_call"
  /\ \E e \in ErrMsgs : exc' = e /\ response' = Raised(e)
  /\ backend_calls' = backend_calls + 1
  /\ pc' = "cr_check"
  /\ UNCHANGED <<globals, inputs, attempt, conn_info, attempts, waits, resets,
                 stage, sql_query, responses, llm_response_str, repaired_llm_str, result,
                 completions, parses, invalidations, ret, exit, ui>>
  /\ UNCHANGED th

\* --------------------------------------------------------- cortex_request

\* a caller calls cortex_request(prompt, json_output, suppress_warnings);
\* line 12 reads the selected model
StartRequest ==
  /\ pc = "idle"
  /\ requests < MaxRequests
  /\ requests' = requests + 1
  /\ prompt' \in Prompts
  /\ json_output' \in BOOLEAN
  /\ suppress_warnings' \in (IF impl = "modules" THEN BOOLEAN ELSE {FALSE})
  /\ selected_model' \in Models
  /\ pc' = "cr_call"
  /\ UNCHANGED <<APP_FULLY_LOADED, GLOBAL_CONNECTION, token_error_flag, created,
                 discarded, impl, eqvars, crvars>>
  /\ UNCHANGED th

\* the prompt of the completion about to be issued (lines 16, 54-55)
PromptText ==
  IF stage = 1 THEN prompt
  ELSE IF impl = "modules" THEN RepairPrompt(llm_response_str)
  ELSE LegacyRepairPrompt(llm_response_str)

\* the repair command naming the default model, not the selected one
RepairModel_default == <<"m">>

\* the model named in the repair command (line 58)
RepairModel == selected_model

\* lines 16-20 and 55-61: build the command and issue the query
CrCall ==
  /\ pc = "cr_call"
  /\ sql_query' = BuildCommand(IF stage = 1 THEN selected_model ELSE RepairModel,
                               EscapePrompt(PromptText))
  /\ completions' = completions + 1
  /\ attempt' = 0
  /\ conn_info' = None
  /\ exc' = <<>>
  /\ attempts' = <<>>
  /\ waits' = <<>>
  /\ resets' = 0
  /\ pc' = IF impl = "modules" THEN "eq_gate" ELSE "lg_call"
  /\ UNCHANGED <<globals, inputs, stage, response, responses, llm_response_str,
                 repaired_llm_str, result, parses, backend_calls, invalidations, ret, exit, ui>>
  /\ UNCHANGED th

\* the emptiness test without its `is None` half
IsEmptyResponse_rows_only(df) == df = <<>>

\* lines 21 and 62 (modules): response_df.empty or the scalar is None;
\* lines 243 and 276 (legacy): not (row and row[0])
IsEmptyResponse(df) ==
  \/ df = <<>>
  \/ df[1].null
  \/ (impl = "legacy" /\ df[1].text = <<>>)

\* json_output ignored: every text goes to the parser
ReturnsRawText_never == FALSE

\* line 32: if not json_output: return llm_response_str
ReturnsRawText == ~json_output

\* line 67 (modules) strips the repaired text; line 280 (legacy) does not
RepairedText(t) == IF impl = "modules" THEN Strip(t) ELSE t

\* the Streamlit calls of the repair stage that suppress_warnings silences
Warn(kind) == IF suppress_warnings THEN ui ELSE Append(ui, Msg(kind))

\* lines 21-33 and 62-67: the result of the query is looked at
CrCheck ==
  /\ pc = "cr_check"
  /\ ~response.raised
  /\ responses' = Append(responses, response.df)
  /\ IF IsEmptyResponse(response.df)
     THEN /\ ret' = NoneVal
          /\ exit' = IF stage = 1 THEN "empty" ELSE "repair_empty"
          /\ ui' = IF stage = 1 THEN Append(ui, Msg("empty_response"))
                   ELSE Warn("repair_empty_response")
          /\ pc' = "done"
          /\ UNCHANGED <<llm_response_str, repaired_llm_str>>
     ELSE IF stage = 1
     THEN /\ llm_response_str' = response.df[1].text
          /\ IF ReturnsRawText
             THEN /\ ret' = TextVal(response.df[1].text)
                  /\ exit' = "text"
                  /\ pc' = "done"
             ELSE /\ pc' = "cr_parse"
                  /\ UNCHANGED <<ret, exit>>
          /\ UNCHANGED <<repaired_llm_str, ui>>
     ELSE /\ repaired_llm_str' = RepairedText(response.df[1].text)
          /\ pc' = "cr_parse"
          /\ UNCHANGED <<llm_response_str, ret, exit, ui>>
  /\ UNCHANGED <<globals, inputs, eqvars, stage, sql_query, response,
                 completions, parses, result, backend_calls, invalidations>>
  /\ UNCHANGED th

\* lines 25-30 and 122-125: the query call raised into cortex_request
CrExcept ==
  /\ pc = "cr_check"
  /\ response.raised
  /\ IF stage = 1
     THEN /\ token_error_flag' = (token_error_flag \/ IsTokenLimit(response.exc))
          /\ ui' = IF IsTokenLimit(response.exc) THEN ui ELSE Append(ui, Msg("llm_error"))
          /\ exit' = "error"
     ELSE /\ ui' = IF impl = "modules" THEN Warn("repair_error")
                   ELSE Append(Append(ui, Msg("repair_error")), TextArea(llm_response_str))
          /\ exit' = "repair_error"
          /\ UNCHANGED token_error_flag
  /\ ret' = NoneVal
  /\ pc' = "done"
  /\ UNCHANGED <<APP_FULLY_LOADED, GLOBAL_CONNECTION, created, discarded, impl, requests,
                 inputs, eqvars, stage, sql_query, response, responses,
                 llm_response_str, repaired_llm_str, result, completions, parses,
                 backend_calls, invalidations>>
  /\ UNCHANGED th

\* the parser of the first pass
FirstParser(t) == IF impl = "modules" THEN FirstPassParse(t) ELSE LegacyParse(t)

\* the parser of the repair pass
RepairParser(t) == IF impl = "modules" THEN extract_and_parse_json(t) ELSE LegacyParse(t)

\* line 115: `if result:` (modules); line 286 returns whatever loads (legacy)
Accepted(r) == r.ok /\ (impl = "legacy" \/ Truthy(r.val))

\* lines 35-52: the first parse; on JSONDecodeError the repair stage starts
ParseFirst ==
  /\ pc = "cr_parse"
  /\ stage = 1
  /\ parses' = parses + 1
  /\ LET r == FirstParser(llm_response_str)
     IN  IF r.ok
         THEN /\ ret' = JsonVal(r.val)
              /\ exit' = "parsed"
              /\ pc' = "done"
              /\ UNCHANGED <<stage, ui>>
         ELSE /\ stage' = 2
              /\ ui' = IF impl = "modules" THEN Warn("repair_warning")
                       ELSE Append(ui, Msg("repair_warning"))
              /\ pc' = "cr_call"
              /\ UNCHANGED <<ret, exit>>
  /\ UNCHANGED <<globals, inputs, eqvars, sql_query, response, responses,
                 llm_response_str, repaired_llm_str, result, completions, backend_calls,
                 invalidations>>
  /\ UNCHANGED th

\* whether the legacy repair pass finds both a '{' and a '}' (line 284)
LegacyHasBraces(t) == Find(t, "{") # -1 /\ RFind(t, "}") + 1 # 0

\* lines 114-120 (modules), 281-294 (legacy): the parse of the repaired text
ParseRepaired ==
  /\ pc = "cr_parse"
  /\ stage = 2
  /\ parses' = parses + 1
  /\ result' = RepairParser(repaired_llm_str)
  /\ LET r == RepairParser(repaired_llm_str)
     IN  IF Accepted(r)
         THEN /\ ret' = JsonVal(r.val)
              /\ exit' = "repaired"
              /\ UNCHANGED ui
         ELSE /\ ret' = NoneVal
              /\ IF impl = "modules"
                 THEN /\ exit' = "repair_failed"
                      /\ ui' = Warn("repair_failed")
                 ELSE IF LegacyHasBraces(repaired_llm_str)
                 THEN /\ exit' = "repair_error"
                      /\ ui' = Append(Append(ui, Msg("repair_error")),
                                      TextArea(llm_response_str))
                 ELSE /\ exit' = "repair_failed"
                      /\ ui' = Append(Append(ui, Msg("repair_failed")),
                                      TextArea(llm_response_str))
  /\ pc' = "done"
  /\ UNCHANGED <<globals, inputs, eqvars, stage, sql_query, response, responses,
                 llm_response_str, repaired_llm_str, completions, backend_calls,
                 invalidations>>
  /\ UNCHANGED th

\* cortex_request has returned to its caller: its frame is gone
Finish ==
  /\ pc = "done"
  /\ pc' = "idle"
  /\ prompt' = <<>>
  /\ json_output' = TRUE
  /\ suppress_warnings' = FALSE
  /\ selected_model' = <<"m">>
  /\ stage' = 1
  /\ sql_query' = <<>>
  /\ attempt' = 0
  /\ conn_info' = None
  /\ exc' = <<>>
  /\ attempts' = <<>>
  /\ waits' = <<>>
  /\ resets' = 0
  /\ response' = Returned(<<>>)
  /\ responses' = <<>>
  /\ llm_response_str' = <<>>
  /\ repaired_llm_str' = <<>>
  /\ completions' = 0
  /\ parses' = 0
  /\ result' = ParseError
  /\ backend_calls' = 0
  /\ invalidations' = 0
  /\ ret' = NoneVal
  /\ exit' = "none"
  /\ ui' = <<>>
  /\ UNCHANGED globals
  /\ UNCHANGED th

Next ==
  \/ MarkAppLoaded
  \/ StartRequest
  \/ CrCall
  \/ EqGate
  \/ EqConnect
  \/ EqCallReturns
  \/ EqCallRaises
  \/ EqExcept
  \/ EqSleep
  \/ EqReset
  \/ LegacyCallReturns
  \/ LegacyCallRaises
  \/ CrCheck
  \/ CrExcept
  \/ ParseFirst
  \/ ParseRepaired
  \/ Finish

Spec == Init /\ [][Next]_vars

\* ------------------------------------------------- escaping specification

EscChars == {SQ, BS, "a"}

\* every text of at most n characters
TextsUpTo(n) == UNION {[1..k -> EscChars] : k \in 0..n}

\* the first command is about to be built from any short prompt
EscInit ==
  /\ APP_FULLY_LOADED = TRUE
  /\ GLOBAL_CONNECTION = None
  /\ token_error_flag = FALSE
  /\ created = 0
  /\ discarded = {}
  /\ impl \in {"modules", "legacy"}
  /\ requests = 1
  /\ pc = "cr_call"
  /\ prompt \in TextsUpTo(MaxPromptLen)
  /\ json_output = TRUE
  /\ suppress_warnings = FALSE
  /\ selected_model \in Models
  /\ stage = 1
  /\ sql_query = <<>>
  /\ attempt = 0
  /\ conn_info = None
  /\ exc = <<>>
  /\ attempts = <<>>
  /\ waits = <<>>
  /\ resets = 0
  /\ response = Returned(<<>>)
  /\ responses = <<>>
  /\ llm_response_str = <<>>
  /\ repaired_llm_str = <<>>
  /\ completions = 0
  /\ parses = 0
  /\ result = ParseError
  /\ backend_calls = 0
  /\ invalidations = 0
  /\ ret = NoneVal
  /\ exit = "none"
  /\ ui = <<>>
  /\ th = [c \in Callers |-> IdleCaller]

\* lines 20-52 in one step: the first completion answers with a text that
\* the first pass cannot parse (every text over EscChars is bracket-free)
EscAnswer ==
  /\ pc \in {"eq_gate", "lg_call"}
  /\ stage = 1
  /\ \E t \in TextsUpTo(MaxPromptLen) :
       /\ ~FirstParser(t).ok
       /\ llm_response_str' = t
       /\ response' = Returned(<<Cell(t)>>)
       /\ responses' = <<(<<Cell(t)>>)>>
  /\ parses' = 1
  /\ stage' = 2
  /\ pc' = "cr_call"
  /\ UNCHANGED <<globals, inputs, eqvars, sql_query, repaired_llm_str, result, completions,
                 backend_calls, invalidations, ret, exit, ui>>
  /\ UNCHANGED th

NextEscape == CrCall \/ EscAnswer

SpecEscape == EscInit /\ [][NextEscape]_vars

\* A single-quoted string constant of the backend's SQL ends at the first
\* quote that is neither doubled nor preceded by an escaping backslash.
\* The number of such quotes in the body of a literal:
RECURSIVE UnescapedQuotes(_, _)
UnescapedQuotes(body, i) ==
  IF i > Len(body) THEN 0
  ELSE IF body[i] = BS THEN UnescapedQuotes(body, i + 2)
  ELSE IF body[i] = SQ
       THEN IF i + 1 <= Len(body) /\ body[i + 1] = SQ
            THEN UnescapedQuotes(body, i + 2)
            ELSE 1 + UnescapedQuotes(body, i + 1)
  ELSE UnescapedQuotes(body, i + 1)

\* the body of the prompt literal of a built command
PromptLiteral(cmd, model) ==
  Slice(cmd, PromptOpen(model), Len(cmd) - Len(CmdTail) - 1)

\* ------------------------------------------------------------------ claims

\* every backend call of the running execute_query raised a transient error
AllTransient ==
  attempts # <<>> /\ \A i \in DOMAIN attempts : attempts[i].outcome = "transient"

\* C1: an execute_query never makes more than max_retries backend calls; when
\* it returns after every backend call raised a transient-capacity error, it
\* has made exactly 3 calls, reset the connection exactly 2 times (one reset
\* before each retry), and it hands back, without raising, the empty result
\* that follows its "database busy" message.
C1_RetryBound ==
  /\ Len(attempts) <= max_retries
  /\ (pc = "cr_check" /\ impl = "modules" /\ AllTransient) =>
       /\ Len(attempts) = 3
       /\ resets = 2
       /\ Len(waits) = 2
       /\ ~response.raised
       /\ response.df = <<>>
       /\ ui # <<>> /\ ui[Len(ui)] = Msg("database_busy")

C1_Witness ==
  pc = "cr_check" /\ impl = "modules" /\ AllTransient /\ Len(attempts) = 3

\* C2: when the first backend call of an execute_query raises an exception
\* that is not a transient-capacity error, the backend is called exactly once,
\* nothing is slept or reset, and the exception reaches the caller unchanged.
C2_NonTransientPropagates ==
  (pc = "cr_check" /\ impl = "modules" /\ attempts # <<>>
     /\ attempts[1].outcome = "other") =>
       /\ Len(attempts) = 1
       /\ waits = <<>>
       /\ resets = 0
       /\ response = Raised(exc)

\* C3: a request issues at most 2 completions; when the first text failed to
\* parse it has issued exactly 2 when it ends, and then a repaired text that
\* parses is returned as the success, while one that does not parse ends the
\* request as a failure.
C3_RepairExactlyOnce ==
  /\ completions <= 2
  /\ (pc = "done" /\ stage = 2) => completions = 2
  /\ (pc = "done" /\ parses = 2) =>
       IF RepairParser(repaired_llm_str).ok
       THEN ret = JsonVal(RepairParser(repaired_llm_str).val)
       ELSE ret = NoneVal /\ exit \in {"repair_failed", "repair_error"}

\* the query result has no rows, or its scalar is absent
NoText(df) == df = <<>> \/ df[1].null

\* C4: a request whose first completion yielded no rows or an absent scalar
\* ends as the empty-response failure after exactly 1 completion, with no
\* parser run and no repair completion.
C4_EmptyBypassesRepair ==
  (pc = "done" /\ responses # <<>> /\ NoText(responses[1])) =>
    /\ Len(responses) = 1
    /\ completions = 1
    /\ parses = 0
    /\ exit = "empty"
    /\ ret = NoneVal

C4_Witness ==
  pc = "done" /\ json_output /\ responses = <<(<<NullCell>>)>> /\ backend_calls = 1

\* C5: with json_output false, a request whose completion returned a text
\* (any text in the modules version; any text but the empty one, which it
\* counts as an empty response, in the legacy version) returns exactly that
\* text after 1 completion and no parser run.
C5_RawPassthrough ==
  (pc = "done" /\ ~json_output /\ responses # <<>> /\ ~NoText(responses[1])
     /\ (impl = "legacy" => responses[1][1].text # <<>>)) =>
    /\ ret = TextVal(responses[1][1].text)
    /\ exit = "text"
    /\ completions = 1
    /\ parses = 0

C5_Witness ==
  pc = "done" /\ ~json_output /\ impl = "modules" /\ ret = TextVal(TFenced)

\* the outcome a request's return statement stands for
Outcome ==
  CASE exit \in {"text", "parsed", "repaired"} -> "Success"
    [] exit \in {"empty", "repair_empty"}      -> "EmptyResponse"
    [] exit = "repair_failed"                  -> "ParseFailure"
    [] OTHER                                   -> "Error"

\* C6: a request whose last completion exhausted its retries on transient
\* errors ends with the outcome BackendBusy (one of Success, EmptyResponse,
\* ParseFailure, BackendBusy), not with EmptyResponse.
C6_BusyIsDistinct ==
  (pc = "done" /\ impl = "modules" /\ AllTransient /\ Len(attempts) = max_retries) =>
    Outcome = "BackendBusy"

Live == (1..created) \ discarded

C8_OneLive ==
  /\ Cardinality(Live) <= 1
  /\ Live = {GLOBAL_CONNECTION} \ {None}

C8_Memoized ==
  /\ created' # created =>
       pc = "eq_conn" /\ GLOBAL_CONNECTION = None /\ created' = created + 1
  /\ (pc = "eq_conn" /\ GLOBAL_CONNECTION # None) =>
       /\ conn_info' = GLOBAL_CONNECTION
       /\ GLOBAL_CONNECTION' = GLOBAL_CONNECTION
       /\ created' = created

\* C8: at most one handle is live and it is the held one; a handle is made
\* only by a get_connection() call that finds none held, and a call that
\* finds one held returns it and makes nothing.
C8_Singleton == []C8_OneLive /\ [][C8_Memoized]_vars

C8_Witness ==
  requests = 2 /\ pc = "eq_call" /\ attempt = 0 /\ created = 1 /\ conn_info = 1

\* C9: the prompt literal of every command built, the first one and the
\* repair one, holds no unescaped quote.
C9_NoUnescapedDelimiter ==
  pc \in {"eq_gate", "lg_call"} =>
    UnescapedQuotes(PromptLiteral(sql_query, selected_model), 1) = 0

\* the texts a failed request shows for inspection or hands back
CarriedTexts ==
  {ui[i].text : i \in {j \in DOMAIN ui : ui[j].kind = "text_area"}}
    \cup (IF ret.kind = "None" THEN {} ELSE {ret.val})

\* the last text a completion of this request returned: the repaired text
\* once it has been handed to the parser, the first text before that
LastRawText ==
  IF parses = 2 THEN responses[2][1].text ELSE responses[1][1].text

\* C10: a request that ends in failure after a completion returned a text
\* (the first parse failed and the repair gave no text, or the repaired text
\* failed to parse too) carries the last text it saw.
C10_FailureCarriesLastText ==
  (pc = "done" /\ ret = NoneVal /\ parses >= 1) => LastRawText \in CarriedTexts

\* the parser the spec calls StructuredOutputParser: extract_and_parse_json
\* in the modules version, the one brace-span parser of the legacy version
StructuredOutputParser(t) == RepairParser(t)

\* the texts the completions of this request returned
ReturnedTexts ==
  {responses[i][1].text : i \in {j \in DOMAIN responses : ~NoText(responses[j])}}

\* C11: a request in JSON mode ends either with a value that the structured
\* output parser produces from one of the texts its completions returned, or,
\* on every failure, with None: never with an empty, partial or default
\* structure.
C11_NoSilentDefault ==
  (pc = "done" /\ json_output) =>
    IF ret.kind = "json"
    THEN \E t \in ReturnedTexts :
           StructuredOutputParser(t).ok /\ ret.val = StructuredOutputParser(t).val
    ELSE ret = NoneVal /\ exit \notin {"parsed", "repaired", "text"}

\* --------------------------------------------------- parser specification

\* nesting depth of the JSON texts the repair completion answers with
MaxDepth == 3

Wrap(open, body, close) == <<open>> \o body \o <<close>>

\* the member "a": v of an object
Member(v) == <<DQ, "a", DQ, ":">> \o v

\* a number, and a string that holds a bracket character
Scalars == {<<"1">>, <<DQ, "]", DQ>>}

\* the second elements of the two-element arrays
SecondElements == {<<"1">>, <<"{", "}">>}

\* the JSON values nested at most d deep
RECURSIVE JsonValues(_)
JsonValues(d) ==
  IF d = 0 THEN Scalars
  ELSE LET inner == JsonValues(d - 1)
       IN  Scalars \cup {<<"[", "]">>, <<"{", "}">>}
             \cup {Wrap("[", v, "]") : v \in inner}
             \cup {Wrap("[", v \o <<",">> \o w, "]") : v \in inner, w \in SecondElements}
             \cup {Wrap("{", Member(v), "}") : v \in inner}

\* the arrays and objects among them
JsonContainers(d) == {v \in JsonValues(d) : v[1] \in {"[", "{"}}

\* what a completion writes before the JSON: nothing, prose, or a fragment
\* that holds brackets
TextsBefore ==
  { <<>>, <<"a", SP>>, <<"a", NL>>,
    <<"[", "a", "]", NL>>, <<"{", "a", "}", NL>>, <<"[", SP>> }

\* what it writes after the JSON
TextsAfter == {<<>>, <<SP, "a">>, <<SP, "]">>}

\* the texts of the parser specification: a JSON array or object with text
\* around it, or text alone
ParseTexts ==
  {b \o j \o a : b \in TextsBefore, j \in JsonContainers(MaxDepth), a \in TextsAfter}
    \cup {b \o a : b \in TextsBefore, a \in TextsAfter}

\* the first text did not parse and the repair completion has just answered
\* with any of the texts
ParseInit ==
  /\ APP_FULLY_LOADED = TRUE
  /\ GLOBAL_CONNECTION = 1
  /\ token_error_flag = FALSE
  /\ created = 1
  /\ discarded = {}
  /\ impl = "modules"
  /\ requests = 1
  /\ pc = "cr_check"
  /\ prompt = <<"a">>
  /\ json_output = TRUE
  /\ suppress_warnings = FALSE
  /\ selected_model = <<"m">>
  /\ stage = 2
  /\ sql_query = BuildCommand(<<"m">>, EscapePrompt(RepairPrompt(TProse)))
  /\ attempt = 0
  /\ conn_info = 1
  /\ exc = <<>>
  /\ attempts = <<[handle |-> 1, outcome |-> "ok"]>>
  /\ waits = <<>>
  /\ resets = 0
  /\ \E t \in ParseTexts : response = Returned(<<Cell(t)>>)
  /\ responses = <<(<<Cell(TProse)>>)>>
  /\ llm_response_str = TProse
  /\ repaired_llm_str = <<>>
  /\ completions = 2
  /\ parses = 1
  /\ result = ParseError
  /\ backend_calls = 2
  /\ invalidations = 0
  /\ ret = NoneVal
  /\ exit = "none"
  /\ ui = <<Msg("repair_warning")>>
  /\ th = [c \in Callers |-> IdleCaller]

NextParse == CrCheck \/ ParseRepaired \/ Finish

SpecParse == ParseInit /\ [][NextParse]_vars

\* the parser of the repair pass has run on the text in repaired_llm_str
ParserHasRun == pc = "done" /\ impl = "modules" /\ parses = 2

IsBracket(c) == c \in {"[", "]", "{", "}"}

\* the indices of the bracket characters of a text
BracketsOf(t) == {i \in DOMAIN t : IsBracket(t[i])}

Least(S) == CHOOSE x \in S : \A y \in S : x <= y
Greatest(S) == CHOOSE x \in S : \A y \in S : y <= x

\* the part of a text from its first to its last bracket character
BracketedPart(t) == SubSeq(t, Least(BracketsOf(t)), Greatest(BracketsOf(t)))

\* the text is bracket-free prose, one well-formed JSON array or object,
\* bracket-free prose
IsWrappedJson(t) ==
  /\ BracketsOf(t) # {}
  /\ t[Least(BracketsOf(t))] \in {"[", "{"}
  /\ ValidJson(BracketedPart(t))

\* C12: for a text made of bracket-free prose, one well-formed JSON array or
\* object (whose members may be arrays or objects), and bracket-free prose,
\* extract_and_parse_json returns that array or object.
C12_WrappedJsonParsed ==
  (ParserHasRun /\ IsWrappedJson(repaired_llm_str)) =>
    result = Parsed(Compact(BracketedPart(repaired_llm_str), 1, FALSE))

\* index i of the text lies inside a JSON string
InString(t, i) ==
  Cardinality({k \in 1..(i - 1) : t[k] = DQ /\ (k = 1 \/ t[k - 1] # BS)}) % 2 = 1

\* the text starts with a well-formed array that has an array or an object
\* among its elements
StartsWithNestedArray(t) ==
  /\ t # <<>>
  /\ t[1] = "["
  /\ ScanValue(t, 1) # 0
  /\ \E i \in 2..(ScanValue(t, 1) - 2) : t[i] \in {"[", "{"} /\ ~InString(t, i)

\* that array: the text up to the bracket that closes its first one
LeadingArray(t) == SubSeq(t, 1, ScanValue(t, 1) - 1)

\* C13: for a text that starts with a well-formed array holding nested
\* arrays or objects, extract_and_parse_json returns the whole array, from
\* the first '[' to the ']' that closes it, whatever follows the array.
C13_CountedBracketWalk ==
  (ParserHasRun /\ StartsWithNestedArray(repaired_llm_str)) =>
    result = Parsed(Compact(LeadingArray(repaired_llm_str), 1, FALSE))

\* C14: when the first text failed to parse and the repair completion
\* yields no rows or an absent scalar, the request ends as a failure after
\* exactly 2 completions, and the parser is not run a second time.
C14_EmptyRepairIsTerminal ==
  /\ completions <= 2
  /\ (pc = "done" /\ Len(responses) = 2 /\ NoText(responses[2])) =>
       /\ completions = 2
       /\ parses = 1
       /\ result = ParseError
       /\ repaired_llm_str = <<>>
       /\ ret = NoneVal
       /\ exit = "repair_empty"

C14_Witness ==
  /\ pc = "done"
  /\ Len(responses) = 2
  /\ responses[2] = <<NullCell>>
  /\ exit = "repair_empty"
  /\ completions = 2

\* the model literal of a command: what stands between its first two quotes
ModelOf(cmd) ==
  LET rest == Slice(cmd, Len(CmdHead) + 1, Len(cmd))
  IN  Slice(rest, 0, Find(rest, SQ))

\* a literal body read back: every doubled quote is one quote
RECURSIVE Undouble(_)
Undouble(s) ==
  IF s = <<>> THEN <<>>
  ELSE IF Len(s) >= 2 /\ s[1] = SQ /\ s[2] = SQ THEN <<SQ>> \o Undouble(Tail(Tail(s)))
  ELSE <<s[1]>> \o Undouble(Tail(s))

\* x occurs in s as a contiguous part
IsInfix(x, s) ==
  \E i \in 0..(Len(s) - Len(x)) : SubSeq(s, i + 1, i + Len(x)) = x

\* the step that builds the repair command: sql_query still holds the first
\* command before it, and the repair command after it
C15_RepairStep ==
  (pc = "cr_call" /\ stage = 2) =>
    /\ ModelOf(sql_query') = ModelOf(sql_query)
    /\ ModelOf(sql_query') = selected_model
    /\ responses[1][1].text = llm_response_str
    /\ IsInfix(responses[1][1].text,
               Undouble(PromptLiteral(sql_query', selected_model)))

\* C15: the repair command names the model the first command of the request
\* named, which is the selected one, and its prompt holds the whole text the
\* first completion returned.
C15_RepairRequestContent == [][C15_RepairStep]_vars

C15_Witness ==
  /\ pc \in {"eq_gate", "lg_call"}
  /\ stage = 2
  /\ selected_model = <<"n">>
  /\ llm_response_str = TProse
  /\ ModelOf(sql_query) = <<"n">>

RECURSIVE SumSeq(_)
SumSeq(q) == IF q = <<>> THEN 0 ELSE Head(q) + SumSeq(Tail(q))

AnyCase(w) ==
  CASE w = "concurrent" -> {"concurrent", "Concurrent"}
    [] w = "queries"    -> {"queries", "Queries"}
    [] w = "exceeded"   -> {"exceeded", "Exceeded"}
    [] w = "limit"      -> {"limit", "LIMIT", "limits", "unlimited"}
    [] OTHER            -> {w}

\* the message holds, in any case, "concurrent queries", "exceeded" or "limit"
NamesCapacity(e) ==
  \/ \E i \in 1..(Len(e) - 1) :
       e[i] \in AnyCase("concurrent") /\ e[i + 1] \in AnyCase("queries")
  \/ \E i \in DOMAIN e : e[i] \in AnyCase("exceeded") \cup AnyCase("limit")

\* the step of the except clause: it moves on to the sleep before a retry
\* only for such a message, and always for one unless the attempt is the
\* last; it reports "query failed" exactly for the other messages
C17_ExceptStep ==
  pc = "eq_except" =>
    /\ pc' = "eq_sleep" <=> (NamesCapacity(exc) /\ attempt < max_retries - 1)
    /\ ui' = Append(ui, Msg("query_failed")) <=> ~NamesCapacity(exc)
    /\ ui' = Append(ui, Msg("database_busy")) <=>
         (NamesCapacity(exc) /\ attempt = max_retries - 1)

\* C17: execute_query treats an exception as a transient-capacity error, and
\* retries after it, if and only if its message holds, compared without
\* regard to case, "concurrent queries", "exceeded" or "limit"; every other
\* exception is a non-transient one.
C17_TransientClassification == [][C17_ExceptStep]_vars

C17_Witness ==
  /\ pc = "eq_sleep"
  /\ exc = <<"Rate", "LIMIT", "reached">>
  /\ attempts[Len(attempts)].outcome = "transient"

\* C18: the first pass parses the first text as extract_and_parse_json
\* would, so a request whose first text that parser can parse returns that
\* value after exactly 1 completion, with no repair.
C18_FirstPassIsFullParser ==
  /\ (impl = "modules" /\ parses >= 1) =>
       FirstParser(llm_response_str) = extract_and_parse_json(llm_response_str)
  /\ (pc = "done" /\ impl = "modules" /\ json_output /\ responses # <<>>
        /\ ~NoText(responses[1])
        /\ extract_and_parse_json(responses[1][1].text).ok) =>
       /\ ret = JsonVal(extract_and_parse_json(responses[1][1].text).val)
       /\ exit = "parsed"
       /\ completions = 1
       /\ stage = 1

\* C19: whenever the parser succeeds on the repaired text, the request
\* returns the value it parsed as its success, an empty array or an empty
\* object included.
C19_ReparseSuccessIsDone ==
  (pc = "done" /\ impl = "modules" /\ parses = 2 /\ result.ok) =>
    /\ ret = JsonVal(result.val)
    /\ exit = "repaired"

\* the number of c among t[a..b]
CountOf(t, c, a, b) == Cardinality({i \in a..b : t[i] = c})

\* the part of the text from its first opening bracket to the first place
\* where as many closing as opening brackets have been passed; the empty
\* text when there is no opening bracket or no such place
CountedSpan(t, open, close) ==
  LET opens == {i \in DOMAIN t : t[i] = open}
      ends  == {j \in Least(opens)..Len(t) :
                  CountOf(t, open, Least(opens), j) = CountOf(t, close, Least(opens), j)}
  IN  IF opens = {} THEN <<>>
      ELSE IF ends = {} THEN <<>>
      ELSE SubSeq(t, Least(opens), Least(ends))

\* strategies 1 and 2: the counted span, when it is valid JSON
SpanStrategy(t, open, close) ==
  IF ValidJson(CountedSpan(t, open, close))
  THEN Parsed(Compact(CountedSpan(t, open, close), 1, FALSE))
  ELSE ParseError

\* the lines that, trimmed, start with a bracket and are valid JSON
GoodLines(t) ==
  {i \in DOMAIN SplitLines(t) :
     LET line == Strip(SplitLines(t)[i])
     IN  line # <<>> /\ line[1] \in {"[", "{"} /\ ValidJson(line)}

\* strategy 3: the first such line
LineStrategy(t) ==
  IF GoodLines(t) = {} THEN ParseError
  ELSE Parsed(Compact(Strip(SplitLines(t)[Least(GoodLines(t))]), 1, FALSE))

\* C20: extract_and_parse_json returns the result of the array scan when it
\* yields valid JSON, else that of the object scan when it does, else the
\* first trimmed line starting with a bracket that is valid JSON, and fails
\* only when all three fail.
C20_StrategyOrder ==
  ParserHasRun =>
    LET t == repaired_llm_str
    IN  result = IF SpanStrategy(t, "[", "]").ok THEN SpanStrategy(t, "[", "]")
                 ELSE IF SpanStrategy(t, "{", "}").ok THEN SpanStrategy(t, "{", "}")
                 ELSE LineStrategy(t)

\* the line strategy decided, after both scans found a span that is not JSON
C20_Witness ==
  /\ ParserHasRun
  /\ CountedSpan(repaired_llm_str, "[", "]") # <<>>
  /\ ~SpanStrategy(repaired_llm_str, "[", "]").ok
  /\ CountedSpan(repaired_llm_str, "{", "}") # <<>>
  /\ ~SpanStrategy(repaired_llm_str, "{", "}").ok
  /\ result.ok
  /\ result = LineStrategy(repaired_llm_str)

\* one step of an execute_query in the order the code fixes: the except
\* clause, then the sleep, then the reset, then the next attempt; a backend
\* call is made from the call position only, after as many sleeps and resets
\* as calls were made before it, and no call is made during the sleep
C21_RetryStep ==
  /\ (pc = "eq_except" /\ pc' # "cr_check") =>
       /\ pc' = "eq_sleep"
       /\ UNCHANGED <<attempts, waits, resets, GLOBAL_CONNECTION, attempt>>
  /\ pc = "eq_sleep" =>
       /\ pc' = "eq_reset"
       /\ Len(waits') = Len(waits) + 1
       /\ UNCHANGED <<attempts, backend_calls, resets, GLOBAL_CONNECTION, attempt>>
  /\ pc = "eq_reset" =>
       /\ pc' = "eq_conn"
       /\ GLOBAL_CONNECTION' = None
       /\ resets' = resets + 1
       /\ attempt' = attempt + 1
       /\ UNCHANGED <<attempts, waits, backend_calls>>
  /\ Len(attempts') > Len(attempts) =>
       /\ pc = "eq_call"
       /\ Len(attempts') = Len(attempts) + 1
       /\ Len(waits) = Len(attempts)
       /\ resets = Len(attempts)
       /\ attempt = Len(attempts)

\* C21: within one execute_query the attempts follow one another, and each
\* retry comes in the order failure observed, sleep, reset, next attempt:
\* attempt i+1 starts only after the i-th sleep and the i-th reset are done,
\* and no backend call is made during a sleep.
C21_RetryOrdering == [][C21_RetryStep]_vars

C21_Witness ==
  /\ pc = "eq_call"
  /\ attempt = 1
  /\ waits = <<1>>
  /\ resets = 1
  /\ Len(attempts) = 1
  /\ GLOBAL_CONNECTION = 2

\* C22: a repair completion has been issued only in JSON mode, after the
\* first completion returned a text and the first parse of that text ended
\* in failure; a request whose first parse succeeded, whose first response
\* was empty, or that is not in JSON mode ends with 1 completion.
C22_RepairOrdering ==
  /\ completions = 2 =>
       /\ json_output
       /\ stage = 2
       /\ parses >= 1
       /\ Len(responses) >= 1
       /\ ~IsEmptyResponse(responses[1])
       /\ llm_response_str = responses[1][1].text
       /\ ~FirstParser(llm_response_str).ok
  /\ (pc = "cr_call" /\ stage = 2) => (parses = 1 /\ completions = 1)
  /\ (pc = "done" /\ exit \in {"parsed", "empty", "text", "error"}) => completions = 1

C22_Witness ==
  /\ pc \in {"eq_gate", "lg_call"}
  /\ completions = 2
  /\ parses = 1
  /\ llm_response_str = TTrunc

\* ------------------------------------------------- two-caller specification

\* Two script threads of one process share the module globals of
\* snowflake_utils.  Each runs one execute_query; a step is one statement.

\* the exceptions of the two-caller specification: a transient one and another
RaceErrs == {<<"Too", "many", "Concurrent", "Queries">>, <<"SQL", "compilation", "error">>}

\* conn_info['type'] with conn_info None (line 60)
NoneTypeError == <<"NoneType", "object", "is", "not", "subscriptable">>

\* both callers have called execute_query
RaceInit ==
  /\ APP_FULLY_LOADED \in BOOLEAN
  /\ GLOBAL_CONNECTION = None
  /\ token_error_flag = FALSE
  /\ created = 0
  /\ discarded = {}
  /\ impl = "modules"
  /\ requests = 0
  /\ pc = "idle"
  /\ prompt = <<>>
  /\ json_output = TRUE
  /\ suppress_warnings = FALSE
  /\ selected_model = <<"m">>
  /\ stage = 1
  /\ sql_query = <<>>
  /\ attempt = 0
  /\ conn_info = None
  /\ exc = <<>>
  /\ attempts = <<>>
  /\ waits = <<>>
  /\ resets = 0
  /\ response = Returned(<<>>)
  /\ responses = <<>>
  /\ llm_response_str = <<>>
  /\ repaired_llm_str = <<>>
  /\ completions = 0
  /\ parses = 0
  /\ result = ParseError
  /\ backend_calls = 0
  /\ invalidations = 0
  /\ ret = NoneVal
  /\ exit = "none"
  /\ ui = <<>>
  /\ th = [c \in Callers |-> [IdleCaller EXCEPT !.pc = "gate"]]

\* what a step of caller c leaves alone besides the handle globals
RaceFrame ==
  UNCHANGED <<APP_FULLY_LOADED, token_error_flag, impl, requests, pc, inputs, eqvars, crvars>>

\* execute_query lines 53-56 for caller c
TGate(c) ==
  /\ th[c].pc = "gate"
  /\ th' = [th EXCEPT ![c].pc = IF APP_FULLY_LOADED THEN "gc_check" ELSE "returned",
                      ![c].attempt = 0]
  /\ UNCHANGED <<GLOBAL_CONNECTION, created, discarded>>
  /\ RaceFrame

\* get_connection line 32: the test `_GLOBAL_CONNECTION is None`
TCheck(c) ==
  /\ th[c].pc = "gc_check"
  /\ th' = [th EXCEPT ![c].pc = IF GLOBAL_CONNECTION = None THEN "gc_create"
                                                          ELSE "gc_return"]
  /\ UNCHANGED <<GLOBAL_CONNECTION, created, discarded>>
  /\ RaceFrame

\* get_connection lines 33-40: a handle is made and assigned
TCreate(c) ==
  /\ th[c].pc = "gc_create"
  /\ created' = created + 1
  /\ GLOBAL_CONNECTION' = created + 1
  /\ th' = [th EXCEPT ![c].pc = "gc_return"]
  /\ UNCHANGED discarded
  /\ RaceFrame

\* get_connection line 42 and execute_query line 58: the global is read again
TReturn(c) ==
  /\ th[c].pc = "gc_return"
  /\ th' = [th EXCEPT ![c].pc = "call", ![c].conn_info = GLOBAL_CONNECTION]
  /\ UNCHANGED <<GLOBAL_CONNECTION, created, discarded>>
  /\ RaceFrame

\* execute_query lines 60-75: the query returns
TCallReturns(c) ==
  /\ th[c].pc = "call"
  /\ th[c].conn_info # None
  /\ th' = [th EXCEPT ![c].pc = "returned"]
  /\ UNCHANGED <<GLOBAL_CONNECTION, created, discarded>>
  /\ RaceFrame

\* execute_query lines 60-77: the query raises, or line 60 does on None
TCallRaises(c) ==
  /\ th[c].pc = "call"
  /\ \E e \in (IF th[c].conn_info = None THEN {NoneTypeError} ELSE RaceErrs) :
       th' = [th EXCEPT ![c].pc = "except", ![c].exc = e]
  /\ UNCHANGED <<GLOBAL_CONNECTION, created, discarded>>
  /\ RaceFrame

\* execute_query lines 78-96
TExcept(c) ==
  /\ th[c].pc = "except"
  /\ th' = [th EXCEPT ![c].pc = IF IsTransient(th[c].exc) /\ RetryAllowed(th[c].attempt)
                                 THEN "sleep" ELSE "returned"]
  /\ UNCHANGED <<GLOBAL_CONNECTION, created, discarded>>
  /\ RaceFrame

\* execute_query lines 83-85
TSleep(c) ==
  /\ th[c].pc = "sleep"
  /\ th' = [th EXCEPT ![c].pc = "reset"]
  /\ UNCHANGED <<GLOBAL_CONNECTION, created, discarded>>
  /\ RaceFrame

\* the reset held back while another caller's query is in flight
ResetGuard_locked(c) == \A d \in Callers \ {c} : th[d].pc # "call"

\* lines 88-89: the reset is under no test, of _CONNECTION_LOCK or otherwise
ResetGuard(c) == TRUE

\* execute_query lines 88-90
TReset(c) ==
  /\ th[c].pc = "reset"
  /\ ResetGuard(c)
  /\ GLOBAL_CONNECTION' = None
  /\ discarded' = discarded \cup ({GLOBAL_CONNECTION} \ {None})
  /\ th' = [th EXCEPT ![c].pc = "gc_check", ![c].attempt = th[c].attempt + 1]
  /\ UNCHANGED created
  /\ RaceFrame

NextRace ==
  \E c \in Callers :
    \/ TGate(c)
    \/ TCheck(c)
    \/ TCreate(c)
    \/ TReturn(c)
    \/ TCallReturns(c)
    \/ TCallRaises(c)
    \/ TExcept(c)
    \/ TSleep(c)
    \/ TReset(c)

SpecRace == RaceInit /\ [][NextRace]_vars

\* C23: with two callers in execute_query and no mutex, nothing holds a
\* caller's reset back while the other caller's query is in flight, so a
\* caller can discard the very handle the other is querying on.
C23_NoMutualExclusion ==
  \A c \in Callers :
    th[c].pc = "reset" => ENABLED TReset(c)

\* one caller is still in its query on a handle the other has just discarded
C23_Witness ==
  \E c, d \in Callers :
    /\ c # d
    /\ th[d].pc = "call"
    /\ th[d].conn_info # None
    /\ th[d].conn_info \in discarded
    /\ th[c].pc = "gc_check"
    /\ th[c].attempt = 1
    /\ GLOBAL_CONNECTION = None

\* the callers that hold what get_connection() returned to them
Holders == {c \in Callers : th[c].pc = "call"}

\* C24: as long as no handle has been discarded, the callers' interleaved
\* get_connection() calls have made at most one handle, and every caller
\* has obtained that one handle.
C24_SingletonUnderInterleaving ==
  discarded = {} =>
    /\ created <= 1
    /\ \A c \in Holders : th[c].conn_info = 1

\* execute_query has returned the result of its last backend call
ReturnedFromCall ==
  pc = "cr_check" /\ impl = "modules" /\ attempts # <<>>
    /\ attempts[Len(attempts)].outcome = "ok"

\* C25: an execute_query whose k-th backend call is the first to return,
\* after k-1 calls that raised transient errors, has made exactly k calls,
\* k-1 sleeps and k-1 resets when it returns, and returns what that call
\* returned, with no error message; for k = 1 nothing is slept or reset.
C25_SuccessStopsRetrying ==
  /\ ReturnedFromCall =>
       /\ Len(attempts) \in 1..max_retries
       /\ \A i \in 1..(Len(attempts) - 1) : attempts[i].outcome = "transient"
       /\ attempt = Len(attempts) - 1
       /\ Len(waits) = Len(attempts) - 1
       /\ resets = Len(attempts) - 1
       /\ ~response.raised
       /\ response.df \in DataFrames
       /\ \A i \in DOMAIN ui : ui[i].kind \notin {"database_busy", "query_failed"}
  /\ \A i \in DOMAIN attempts :
       attempts[i].outcome = "ok" => (i = Len(attempts) /\ pc \notin {"eq_conn", "eq_call", "eq_except", "eq_sleep", "eq_reset"})

C25_Witness ==
  /\ ReturnedFromCall
  /\ Len(attempts) = 3
  /\ response.df = <<Cell(TObj)>>
  /\ stage = 1

\* execute_query has returned after a non-transient error that followed
\* transient ones
ReturnedFromMixedFailure ==
  /\ pc = "cr_check" /\ impl = "modules" /\ Len(attempts) >= 2
  /\ attempts[Len(attempts)].outcome = "other"
  /\ \A i \in 1..(Len(attempts) - 1) : attempts[i].outcome = "transient"

\* C26: when attempt k (2 or 3) raises a non-transient error after k-1
\* transient ones, execute_query makes no further attempt (k calls, k-1
\* resets), and its outcome is the failure of that error, handed to the
\* caller, and not the busy outcome.
C26_MixedFailure ==
  ReturnedFromMixedFailure =>
    /\ Len(attempts) \in 2..max_retries
    /\ resets = Len(attempts) - 1
    /\ Len(waits) = Len(attempts) - 1
    /\ ui # <<>>
    /\ ui[Len(ui)] # Msg("database_busy")
    /\ response = Raised(exc)

\* one step of the program, seen from the held handle
C27_FrameStep ==
  /\ GLOBAL_CONNECTION' # GLOBAL_CONNECTION =>
       \/ /\ pc = "eq_reset" /\ pc' = "eq_conn"
          /\ attempts # <<>>
          /\ attempts[Len(attempts)].outcome = "transient"
          /\ GLOBAL_CONNECTION' = None
       \/ /\ pc = "eq_conn"
          /\ GLOBAL_CONNECTION = None
          /\ GLOBAL_CONNECTION' = created + 1
  /\ (pc \in {"eq_call", "eq_except", "eq_reset"} /\ pc' = "cr_check") =>
       /\ attempts' # <<>>
       /\ GLOBAL_CONNECTION' # None
       /\ GLOBAL_CONNECTION' = attempts'[Len(attempts')].handle
  /\ (pc = "eq_conn" /\ GLOBAL_CONNECTION # None) =>
       /\ conn_info' = GLOBAL_CONNECTION
       /\ created' = created
       /\ UNCHANGED GLOBAL_CONNECTION

\* C27: execute_query discards the held handle only between a transient
\* failure and the retry that follows it; when it returns after a success,
\* a non-transient failure or the last exhausted transient failure the
\* handle of its last attempt is still held, and an execute_query that
\* finds a held handle uses it without making a new one.
C27_HandleFrame == [][C27_FrameStep]_vars

C27_Witness ==
  /\ pc = "eq_call" /\ attempt = 0 /\ attempts = <<>>
  /\ backend_calls = max_retries /\ invalidations = max_retries - 1
  /\ created = max_retries
  /\ conn_info = max_retries /\ GLOBAL_CONNECTION = max_retries

\* what holds of modules/snowflake_utils.py for as long as mark_app_loaded
\* has not been called
C28_GateClosed ==
  (impl = "modules" /\ ~APP_FULLY_LOADED) =>
    /\ created = 0 /\ GLOBAL_CONNECTION = None /\ discarded = {}
    /\ conn_info = None
    /\ attempts = <<>> /\ backend_calls = 0
    /\ waits = <<>>
    /\ resets = 0 /\ invalidations = 0
    /\ pc \notin {"eq_conn", "eq_call", "eq_except", "eq_sleep", "eq_reset", "cr_parse"}
    /\ pc = "cr_check" => response = Returned(<<>>)
    /\ pc = "done" => (exit = "empty" /\ ret = NoneVal /\ completions = 1)

\* C28: while mark_app_loaded has not been called, execute_query returns an
\* empty result without taking or making a handle and without a backend
\* call, a sleep or a reset, and the cortex_request that called it ends with
\* the empty-response outcome after one completion; once set, the loaded
\* flag is never cleared.
C28_StartupGate ==
  /\ []C28_GateClosed
  /\ [][APP_FULLY_LOADED => APP_FULLY_LOADED']_vars

C28_Witness ==
  /\ impl = "modules" /\ ~APP_FULLY_LOADED
  /\ requests = MaxRequests
  /\ pc = "done" /\ exit = "empty"
  /\ ui = <<Msg("empty_response")>>

\* the backend call of the first completion has failed for good, its last
\* exception naming the token limit
TokenLimitFailure ==
  /\ pc = "cr_check" /\ stage = 1
  /\ IsTokenLimit(exc)
  /\ IF impl = "modules"
     THEN attempts # <<>> /\ attempts[Len(attempts)].outcome # "ok"
     ELSE response.raised

C29_TokenStep ==
  IF TokenLimitFailure
  THEN /\ token_error_flag'
       /\ pc' = "done"
       /\ ret' = NoneVal
       /\ completions' = 1
  ELSE token_error_flag' = token_error_flag

\* C29: when the backend call of a completion fails with a message holding
\* both "max tokens" and "exceeded", cortex_request sets token_error_flag
\* and returns None without a repair completion; every other step leaves
\* the flag as it was.
C29_TokenLimitError == [][C29_TokenStep]_vars

\* ------------------------------------------------ termination specification

\* the program before its last request: no request so far has been served
\* by the backend (each was made before mark_app_loaded, or came back empty),
\* so that everything but the number of requests is as after construction
LiveInit ==
  /\ APP_FULLY_LOADED = FALSE
  /\ GLOBAL_CONNECTION = None
  /\ token_error_flag = FALSE
  /\ created = 0
  /\ discarded = {}
  /\ impl \in {"modules", "legacy"}
  /\ requests = MaxRequests - 1
  /\ pc = "idle"
  /\ prompt = <<>>
  /\ json_output = TRUE
  /\ suppress_warnings = FALSE
  /\ selected_model = <<"m">>
  /\ stage = 1
  /\ sql_query = <<>>
  /\ attempt = 0
  /\ conn_info = None
  /\ exc = <<>>
  /\ attempts = <<>>
  /\ waits = <<>>
  /\ resets = 0
  /\ response = Returned(<<>>)
  /\ responses = <<>>
  /\ llm_response_str = <<>>
  /\ repaired_llm_str = <<>>
  /\ completions = 0
  /\ parses = 0
  /\ result = ParseError
  /\ backend_calls = 0
  /\ invalidations = 0
  /\ ret = NoneVal
  /\ exit = "none"
  /\ ui = <<>>
  /\ th = [c \in Callers |-> IdleCaller]

\* the statements of a cortex_request that is under way, the parses apart:
\* the interpreter runs the next statement, a query that was issued returns
\* or raises, and time.sleep returns
RequestStep ==
  \/ CrCall
  \/ EqGate
  \/ EqConnect
  \/ EqCallReturns
  \/ EqCallRaises
  \/ EqExcept
  \/ EqSleep
  \/ EqReset
  \/ LegacyCallReturns
  \/ LegacyCallRaises
  \/ CrCheck
  \/ CrExcept

\* json.loads and the bracket scans go once over a finite text and return:
\* control does not stay in a parse.  At "cr_parse" exactly one of ParseFirst
\* and ParseRepaired is enabled and each leaves that position, so this is
\* weak fairness of the two parse steps.
ParseReturns == []<>(pc # "cr_parse")

\* the program, a request that has been made running on to its return
SpecLive == LiveInit /\ [][Next]_vars /\ WF_vars(RequestStep) /\ ParseReturns

\* the totals of one cortex_request
C30_Bounds ==
  /\ completions <= 2
  /\ backend_calls <= 2 * max_retries
  /\ invalidations <= 2 * (max_retries - 1)
  /\ Len(attempts) <= max_retries
  /\ resets <= max_retries - 1

\* C30: whatever the backend does, a cortex_request that was called returns,
\* having issued at most 2 completions, at most 6 backend calls (3 for each
\* completion) and at most 4 resets of the handle.
C30_BoundedTermination ==
  /\ []C30_Bounds
  /\ (pc = "cr_call" /\ stage = 1) ~> (pc = "done")

C30_Witness ==
  /\ pc = "done"
  /\ completions = 2
  /\ backend_calls = 2 * max_retries
  /\ invalidations = 2 * (max_retries - 1)

====
